---- MODULE Spec2Model ----
(***************************************************************************)
(* Model of the three honeypot log analysis scripts                        *)
(*   cowrie_analysis/cowrie_analysis.py        (Family A, SSH/shell)       *)
(*   santrypeer_analysis/santrypeer_analysis.py (Family B, SIP)            *)
(*   tanner_analysis/tanner_analysis.py        (Family C, HTTP)            *)
(* Each script is one linear pass: read the log files line by line, build  *)
(* a pandas DataFrame, clean the timestamps, compute the grouped counts    *)
(* and the value_counts tables, do the GeoIP lookups.                      *)
(*                                                                         *)
(* Representation of Python values:                                        *)
(*   - a str is the sequence of its colon-free parts ("1.2.3.4:5060" is    *)
(*     <<"1.2.3.4", "5060">>), so that str.split(":") can be computed;     *)
(*   - None / NaN is the empty sequence;                                   *)
(*   - a parsed timestamp is the number day * 24 + hour, NaT is -1.        *)
(* Plotting and CSV writing are not modelled.                              *)
(***************************************************************************)
EXTENDS Integers, Sequences, FiniteSets, TLC

\* ---------------------------------------------------------------- bounds
MaxLines == 3
MaxFiles == 2

\* ------------------------------------------------------ Python values
None == <<>>
Str(s) == <<s>>
NaT == -1

Families == {"cowrie", "sentrypeer", "tanner"}

\* raw timestamp strings of the logs and what pd.to_datetime makes of them
TsA == Str("2024-01-03T01")
TsB == Str("2024-01-01T03")
TsBad == Str("not-a-time")

IsParseable(ts) == ts \in {TsA, TsB}

ParseTs(ts) ==
    CASE ts = TsA -> 3 * 24 + 1
      [] ts = TsB -> 1 * 24 + 3
      [] OTHER -> NaT

to_datetime_coerce(ts) == ParseTs(ts)

dt_date(t) == IF t = NaT THEN NaT ELSE t \div 24
dt_hour(t) == IF t = NaT THEN NaT ELSE t % 24

\* addresses of the logs and the content of the GeoLite2 database
IpUS == "8.8.8.8"
IpAU == "1.1.1.1"
IpPrivate == "10.0.0.1"

InDb(ip) == ip \in {Str(IpUS), Str(IpAU)}
iso_code(ip) == IF ip = Str(IpUS) THEN Str("US") ELSE Str("AU")
country_name(ip) == IF ip = Str(IpUS) THEN Str("United States") ELSE Str("Australia")

\* ------------------------------------------------------------ log lines
\* json: "invalid" (json.loads raises), "scalar" (valid JSON, not an object),
\* "object".  For an object: the raw timestamp (None when the key is absent),
\* the address field (None when the key is absent), for tanner the shape of
\* the "peer" level ("absent", "null", "dict") and the user-agent and
\* detection leaves (None when the leaf or a level above it is absent).
Line(j, ts, addr, peer, ua, det) ==
    [json |-> j, timestamp |-> ts, addr |-> addr, peer |-> peer,
     ua |-> ua, detection |-> det]

Obj(ts, addr) == Line("object", ts, addr, "dict", None, None)

CommonLines ==
    { Line("invalid", None, None, "absent", None, None),
      Line("scalar", None, None, "absent", None, None),
      Obj(None, Str(IpUS)),
      Obj(TsBad, Str(IpUS)),
      Obj(TsA, Str(IpUS)),
      Obj(TsB, Str(IpUS)),
      Obj(TsB, Str(IpAU)),
      Obj(TsA, Str(IpPrivate)),
      Obj(TsB, None) }

SentrypeerLines ==
    { Line("invalid", None, None, "absent", None, None),
      Line("scalar", None, None, "absent", None, None),
      Obj(None, <<IpUS, "5060">>),
      Obj(TsBad, <<IpUS, "5060">>),
      Obj(TsA, <<IpUS, "5060">>),
      Obj(TsB, <<IpUS, "5060">>),
      Obj(TsB, <<IpAU, "5060">>),
      Obj(TsA, <<IpPrivate, "5060">>),
      Obj(TsB, None),
      Obj(TsA, <<IpUS>>),
      Obj(TsB, <<"2001", "db8", "5060">>) }

TannerLines ==
    CommonLines \cup
    { Line("object", TsA, None, "absent", Str("curl"), None),
      Line("object", TsB, Str(IpUS), "null", None, None),
      Line("object", TsB, Str(IpAU), "dict", Str("curl"), Str("sqli")) }

Lines(f) ==
    CASE f = "cowrie" -> CommonLines
      [] f = "sentrypeer" -> SentrypeerLines
      [] f = "tanner" -> TannerLines

\* the lines the specification says must be retained
IsValidLine(l) == l.json = "object" /\ IsParseable(l.timestamp)

\* ------------------------------------------------------- pandas helpers
Range(s) == {s[i] : i \in DOMAIN s}

Count(col, v) == Cardinality({i \in DOMAIN col : col[i] = v})

NotNone(v) == v /= None

dropna(col) == SelectSeq(col, NotNone)

\* Series.unique(): the distinct values in order of first appearance
RECURSIVE unique(_)
unique(col) ==
    IF col = <<>> THEN <<>>
    ELSE LET n == Len(col)
             u == unique(SubSeq(col, 1, n - 1))
         IN IF col[n] \in Range(u) THEN u ELSE Append(u, col[n])

\* the orders a descending sort by count may leave the labels in: the sort
\* kind of Series.sort_values is not a stable one, equal counts may come out
\* in any order
Orders(col, u) ==
    {p \in [1..Len(u) -> 1..Len(u)] :
        /\ \A i, j \in 1..Len(u) : i /= j => p[i] /= p[j]
        /\ \A i \in 1..(Len(u) - 1) : Count(col, u[p[i]]) >= Count(col, u[p[i + 1]])}

\* Series.value_counts(): NaN dropped, one (label, count) row per distinct
\* value, sorted by count descending; the set of the possible results
value_counts(col) ==
    LET u == unique(dropna(col))
    IN {[i \in 1..Len(u) |-> <<u[p[i]], Count(col, u[p[i]])>>] : p \in Orders(col, u)}

head(t, n) == SubSeq(t, 1, IF Len(t) < n THEN Len(t) ELSE n)

Min(S) == CHOOSE m \in S : \A x \in S : m <= x

MaxOf(S) == CHOOSE m \in S : \A x \in S : m >= x

RECURSIVE SortedKeys(_)
SortedKeys(S) ==
    IF S = {} THEN <<>>
    ELSE LET m == Min(S) IN <<m>> \o SortedKeys(S \ {m})

\* a grouped count that fills the gaps between the first and the last key
\* with empty buckets
groupby_size_zero_filled(keys) ==
    LET present == Range(keys) \ {NaT}
        ks == IF present = {} THEN <<>>
              ELSE [i \in 1..(MaxOf(present) - Min(present) + 1) |->
                       Min(present) + i - 1]
    IN [i \in 1..Len(ks) |-> <<ks[i], Count(keys, ks[i])>>]

\* df.groupby(key).size(): NaT keys dropped, groups in ascending key order,
\* only the keys that occur
groupby_size(keys) ==
    LET ks == SortedKeys(Range(keys) \ {NaT})
    IN [i \in 1..Len(ks) |-> <<ks[i], Count(keys, ks[i])>>]

\* ---------------------------------------------------------------- state
VARIABLES
    family,         \* which of the three scripts runs
    GEOIP_ENABLED,  \* tanner: whether "from geoip2.database import Reader" succeeded
    pc,             \* position in the script
    error,          \* the exception that ended the run and the call that
                    \* raised it, "none" while it runs
    nfiles,         \* matching log files opened so far
    seen,           \* history: the lines read so far, in order
    rows,           \* the list built by the parsing loop (rows / records)
    df,             \* the DataFrame after timestamp cleaning
    daily,          \* groupby(date).size()
    top_ips,        \* value_counts().head(10) of the address column
    top_det,        \* tanner: value_counts().head(10) of detection
    uas,            \* tanner: value_counts().head(10) of user_agent
    hourly,         \* tanner: groupby(hour).size()
    geoip_db,       \* "unread", or what the script found at the database path
    lookups,        \* the addresses passed to reader.country / reader.city, in order
    country,        \* the looked-up labels (df["country"], tanner: countries)
    country_counts  \* value_counts().head(10) of country

vars == <<family, GEOIP_ENABLED, pc, error, nfiles, seen, rows, df, daily,
          top_ips, top_det, uas, hourly, geoip_db, lookups, country,
          country_counts>>

parseVars == <<nfiles, seen, rows>>
tableVars == <<daily, top_ips, top_det, uas, hourly>>
geoVars == <<geoip_db, lookups, country, country_counts>>

TopN == 10

\* the order of the steps; a script skips the steps it does not have
StepOrder ==
    <<"glob", "read", "frame", "daily", "top_ips", "top_det", "uas",
      "hourly", "geo", "summary", "done">>

Rank(p) == CHOOSE i \in DOMAIN StepOrder : StepOrder[i] = p

\* the step named p has been completed
Past(p) == Rank(pc) > Rank(p)

Running == error = "none"

Init ==
    /\ family \in Families
    /\ GEOIP_ENABLED \in (IF family = "tanner" THEN BOOLEAN ELSE {TRUE})
    /\ pc = "glob"
    /\ error = "none"
    /\ nfiles = 0
    /\ seen = <<>>
    /\ rows = <<>>
    /\ df = <<>>
    /\ daily = <<>>
    /\ top_ips = <<>>
    /\ top_det = <<>>
    /\ uas = <<>>
    /\ hourly = <<>>
    /\ geoip_db = "unread"
    /\ lookups = <<>>
    /\ country = <<>>
    /\ country_counts = <<>>

\* ------------------------------------------------------- the parsing loop
\* cowrie: one row per line on which json.loads and the .get calls succeed
cowrie_row(r, l) ==
    IF l.json = "object"
    THEN Append(r, [lineno |-> Len(seen) + 1, timestamp |-> l.timestamp,
                    src_ip |-> l.addr])
    ELSE r

\* sentrypeer: every line json.loads accepts is appended as it is, an
\* object or not
sentrypeer_record(r, l) ==
    IF l.json = "invalid" THEN r
    ELSE Append(r, [lineno |-> Len(seen) + 1, is_dict |-> l.json = "object",
                    event_timestamp |-> l.timestamp, source_ip |-> l.addr])

\* tanner: nested .get calls with {} defaults; a level that is present but
\* not a dict makes .get raise, the bare except drops the line
tanner_record(r, l) ==
    IF l.json = "object" /\ l.peer /= "null"
    THEN Append(r, [lineno |-> Len(seen) + 1, timestamp |-> l.timestamp,
                    ip |-> IF l.peer = "absent" THEN None ELSE l.addr,
                    user_agent |-> IF l.ua = None THEN Str("N/A") ELSE l.ua,
                    detection |-> IF l.detection = None THEN Str("N/A")
                                  ELSE l.detection])
    ELSE r

ParseLine(r, l) ==
    CASE family = "cowrie" -> cowrie_row(r, l)
      [] family = "sentrypeer" -> sentrypeer_record(r, l)
      [] family = "tanner" -> tanner_record(r, l)

\* the next matching file is opened
OpenFile ==
    /\ Running /\ pc = "glob" /\ nfiles < MaxFiles
    /\ nfiles' = nfiles + 1
    /\ pc' = "read"
    /\ UNCHANGED <<family, GEOIP_ENABLED, error, seen, rows, df>>
    /\ UNCHANGED <<tableVars, geoVars>>

\* the next matching file cannot be opened: open / gzip.open raises, nothing
\* catches it
OpenFileFails ==
    /\ Running /\ pc = "glob" /\ nfiles < MaxFiles
    /\ nfiles' = nfiles + 1
    /\ error' = "OSError(open)"
    /\ UNCHANGED <<family, GEOIP_ENABLED, pc, seen, rows, df>>
    /\ UNCHANGED <<tableVars, geoVars>>

\* one iteration of "for line in f"
ReadLine ==
    /\ Running /\ pc = "read" /\ Len(seen) < MaxLines
    /\ \E l \in Lines(family) :
         /\ seen' = Append(seen, l)
         /\ rows' = ParseLine(rows, l)
    /\ UNCHANGED <<family, GEOIP_ENABLED, pc, error, nfiles, df>>
    /\ UNCHANGED <<tableVars, geoVars>>

\* the file is exhausted
EndOfFile ==
    /\ Running /\ pc = "read"
    /\ pc' = "glob"
    /\ UNCHANGED <<family, GEOIP_ENABLED, error, parseVars, df>>
    /\ UNCHANGED <<tableVars, geoVars>>

\* the enumeration of the files is exhausted
EndOfFiles ==
    /\ Running /\ pc = "glob"
    /\ pc' = "frame"
    /\ UNCHANGED <<family, GEOIP_ENABLED, error, parseVars, df>>
    /\ UNCHANGED <<tableVars, geoVars>>

\* -------------------------------------------- DataFrame and timestamps
HasTimestamp(r) == r.timestamp /= NaT

\* cowrie: pd.to_datetime(errors="coerce") then dropna(subset=["timestamp"])
cowrie_clean(r) ==
    SelectSeq([i \in 1..Len(r) |->
                  [lineno |-> r[i].lineno,
                   timestamp |-> to_datetime_coerce(r[i].timestamp),
                   src_ip |-> r[i].src_ip]],
              HasTimestamp)

\* tanner: the same, then the date and hour columns
tanner_clean(r) ==
    LET kept == SelectSeq([i \in 1..Len(r) |->
                              [lineno |-> r[i].lineno,
                               timestamp |-> to_datetime_coerce(r[i].timestamp),
                               ip |-> r[i].ip,
                               user_agent |-> r[i].user_agent,
                               detection |-> r[i].detection]],
                          HasTimestamp)
    IN [i \in 1..Len(kept) |->
           [lineno |-> kept[i].lineno, timestamp |-> kept[i].timestamp,
            ip |-> kept[i].ip, user_agent |-> kept[i].user_agent,
            detection |-> kept[i].detection,
            date |-> dt_date(kept[i].timestamp),
            hour |-> dt_hour(kept[i].timestamp)]]

\* a DataFrame built from dicts has a column for a key only when some dict
\* has the key
HasColumn(col) == \E i \in DOMAIN col : col[i] /= None

\* the number of columns of str.split(":", expand=True)
split_width(col) == MaxOf({Len(col[i]) : i \in DOMAIN col})

\* pd.to_datetime without errors="coerce" raises on a string it cannot parse
to_datetime_raises(col) ==
    \E i \in DOMAIN col : col[i] /= None /\ ~IsParseable(col[i])

sentrypeer_source_ip(r) == [i \in 1..Len(r) |-> r[i].source_ip]
sentrypeer_event_timestamp(r) == [i \in 1..Len(r) |-> r[i].event_timestamp]

\* sentrypeer: the exception lines 36 and 52-54 end with, "none" if none
sentrypeer_frame_error(r) ==
    CASE r = <<>> -> "KeyError(source_ip)"
      [] r /= <<>> /\ (\E i \in DOMAIN r : ~r[i].is_dict) ->
            IF r[1].is_dict THEN "AttributeError(DataFrame)"
            ELSE "KeyError(source_ip)"
      [] OTHER ->
            IF ~HasColumn(sentrypeer_source_ip(r))
            THEN "KeyError(source_ip)"
            ELSE IF split_width(sentrypeer_source_ip(r)) /= 2
            THEN "ValueError(split)"
            ELSE IF ~HasColumn(sentrypeer_event_timestamp(r))
            THEN "KeyError(event_timestamp)"
            ELSE IF to_datetime_raises(sentrypeer_event_timestamp(r))
            THEN "ValueError(to_datetime)"
            ELSE "none"

\* sentrypeer: src_ip and src_port from the split, the parsed timestamp and
\* the date; no row is dropped
sentrypeer_columns(r) ==
    [i \in 1..Len(r) |->
        [lineno |-> r[i].lineno,
         source_ip |-> r[i].source_ip,
         src_ip |-> IF Len(r[i].source_ip) >= 1 THEN Str(r[i].source_ip[1]) ELSE None,
         src_port |-> IF Len(r[i].source_ip) >= 2 THEN Str(r[i].source_ip[2]) ELSE None,
         event_timestamp |-> ParseTs(r[i].event_timestamp),
         date |-> dt_date(ParseTs(r[i].event_timestamp))]]

\* cowrie lines 45-47; df["timestamp"] of a frame built from no row raises
CowrieFrame ==
    /\ Running /\ pc = "frame" /\ family = "cowrie"
    /\ IF rows = <<>>
       THEN error' = "KeyError(timestamp)" /\ UNCHANGED <<pc, df>>
       ELSE df' = cowrie_clean(rows) /\ pc' = "daily" /\ UNCHANGED error
    /\ UNCHANGED <<family, GEOIP_ENABLED, parseVars, tableVars, geoVars>>

\* sentrypeer lines 36 and 48-54
SentrypeerFrame ==
    /\ Running /\ pc = "frame" /\ family = "sentrypeer"
    /\ IF sentrypeer_frame_error(rows) /= "none"
       THEN error' = sentrypeer_frame_error(rows) /\ UNCHANGED <<pc, df>>
       ELSE df' = sentrypeer_columns(rows) /\ pc' = "daily" /\ UNCHANGED error
    /\ UNCHANGED <<family, GEOIP_ENABLED, parseVars, tableVars, geoVars>>

\* tanner lines 58-62
TannerFrame ==
    /\ Running /\ pc = "frame" /\ family = "tanner"
    /\ IF rows = <<>>
       THEN error' = "KeyError(timestamp)" /\ UNCHANGED <<pc, df>>
       ELSE df' = tanner_clean(rows) /\ pc' = "daily" /\ UNCHANGED error
    /\ UNCHANGED <<family, GEOIP_ENABLED, parseVars, tableVars, geoVars>>

\* ------------------------------------------------------------ aggregates
col_date(frame) == [i \in 1..Len(frame) |-> frame[i].date]
col_hour(frame) == [i \in 1..Len(frame) |-> frame[i].hour]
col_src_ip(frame) == [i \in 1..Len(frame) |-> frame[i].src_ip]
col_ip(frame) == [i \in 1..Len(frame) |-> frame[i].ip]
col_user_agent(frame) == [i \in 1..Len(frame) |-> frame[i].user_agent]
col_detection(frame) == [i \in 1..Len(frame) |-> frame[i].detection]

\* the date of every row of the frame
DateColumn(f, frame) ==
    IF f = "cowrie"
    THEN [i \in 1..Len(frame) |-> dt_date(frame[i].timestamp)]
    ELSE col_date(frame)

\* the address of every row of the frame
IpColumn(f, frame) ==
    IF f = "tanner" THEN col_ip(frame) ELSE col_src_ip(frame)

Daily ==
    /\ Running /\ pc = "daily"
    /\ daily' = groupby_size(DateColumn(family, df))
    /\ pc' = "top_ips"
    /\ UNCHANGED <<family, GEOIP_ENABLED, error, parseVars, df, geoVars>>
    /\ UNCHANGED <<top_ips, top_det, uas, hourly>>

TopIps ==
    /\ Running /\ pc = "top_ips"
    /\ \E t \in value_counts(IpColumn(family, df)) : top_ips' = head(t, TopN)
    /\ pc' = IF family = "tanner" THEN "top_det" ELSE "geo"
    /\ UNCHANGED <<family, GEOIP_ENABLED, error, parseVars, df, geoVars>>
    /\ UNCHANGED <<daily, top_det, uas, hourly>>

TopDet ==
    /\ Running /\ pc = "top_det"
    /\ \E t \in value_counts(col_detection(df)) : top_det' = head(t, TopN)
    /\ pc' = "uas"
    /\ UNCHANGED <<family, GEOIP_ENABLED, error, parseVars, df, geoVars>>
    /\ UNCHANGED <<daily, top_ips, uas, hourly>>

UserAgents ==
    /\ Running /\ pc = "uas"
    /\ \E t \in value_counts(col_user_agent(df)) : uas' = head(t, TopN)
    /\ pc' = "hourly"
    /\ UNCHANGED <<family, GEOIP_ENABLED, error, parseVars, df, geoVars>>
    /\ UNCHANGED <<daily, top_ips, top_det, hourly>>

Hourly ==
    /\ Running /\ pc = "hourly"
    /\ hourly' = groupby_size(col_hour(df))
    /\ pc' = "geo"
    /\ UNCHANGED <<family, GEOIP_ENABLED, error, parseVars, df, geoVars>>
    /\ UNCHANGED <<daily, top_ips, top_det, uas>>

\* ----------------------------------------------------------------- GeoIP
\* cowrie: reader.country(ip).country.iso_code, "UNK" when the lookup raises
ip_to_country(ip) == IF InDb(ip) THEN iso_code(ip) ELSE Str("UNK")

\* sentrypeer: reader.country(ip).country.name, "unknown" when it raises
resolve_country(ip) == IF InDb(ip) THEN country_name(ip) ELSE Str("unknown")

\* tanner: the names of the distinct addresses whose lookup succeeds; an
\* address whose lookup raises adds nothing
tanner_countries(ips) ==
    LET found == SelectSeq(ips, InDb)
    IN [i \in 1..Len(found) |-> country_name(found[i])]

\* cowrie lines 137-159: the lookup runs only if the database file exists,
\* once per row of the frame
CowrieGeo ==
    /\ Running /\ pc = "geo" /\ family = "cowrie"
    /\ \E exists \in BOOLEAN :
         IF exists
         THEN /\ geoip_db' = "present"
              /\ lookups' = col_src_ip(df)
              /\ country' = [i \in 1..Len(df) |-> ip_to_country(df[i].src_ip)]
              /\ \E t \in value_counts(country') : country_counts' = head(t, TopN)
         ELSE /\ geoip_db' = "absent"
              /\ UNCHANGED <<lookups, country, country_counts>>
    /\ pc' = "done"
    /\ UNCHANGED <<family, GEOIP_ENABLED, error, parseVars, df, tableVars>>

\* sentrypeer lines 98-104: the reader is opened without a check, then one
\* lookup per row of the frame
SentrypeerGeo ==
    /\ Running /\ pc = "geo" /\ family = "sentrypeer"
    /\ \E exists \in BOOLEAN :
         IF exists
         THEN /\ geoip_db' = "present"
              /\ lookups' = col_src_ip(df)
              /\ country' = [i \in 1..Len(df) |-> resolve_country(df[i].src_ip)]
              /\ \E t \in value_counts(country') : country_counts' = head(t, TopN)
              /\ pc' = "done"
              /\ UNCHANGED error
         ELSE /\ geoip_db' = "absent"
              /\ error' = "FileNotFoundError(Reader)"
              /\ UNCHANGED <<pc, lookups, country, country_counts>>
    /\ UNCHANGED <<family, GEOIP_ENABLED, parseVars, df, tableVars>>

\* tanner lines 157-173: only if geoip2 was imported; the reader is opened
\* without a check, then one lookup per distinct non-null address
TannerGeo ==
    /\ Running /\ pc = "geo" /\ family = "tanner"
    /\ IF ~GEOIP_ENABLED
       THEN /\ pc' = "summary"
            /\ UNCHANGED <<error, geoVars>>
       ELSE \E exists \in BOOLEAN :
              IF exists
              THEN /\ geoip_db' = "present"
                   /\ lookups' = unique(dropna(col_ip(df)))
                   /\ country' = tanner_countries(lookups')
                   /\ \E t \in value_counts(country') : country_counts' = head(t, TopN)
                   /\ pc' = "summary"
                   /\ UNCHANGED error
              ELSE /\ geoip_db' = "absent"
                   /\ error' = "FileNotFoundError(Reader)"
                   /\ UNCHANGED <<pc, lookups, country, country_counts>>
    /\ UNCHANGED <<family, GEOIP_ENABLED, parseVars, df, tableVars>>

\* tanner lines 178-185: idxmax of an empty value_counts raises
Summary ==
    /\ Running /\ pc = "summary"
    /\ IF dropna(col_ip(df)) = <<>>
       THEN error' = "ValueError(idxmax)" /\ UNCHANGED pc
       ELSE pc' = "done" /\ UNCHANGED error
    /\ UNCHANGED <<family, GEOIP_ENABLED, parseVars, df, tableVars, geoVars>>

Next ==
    \/ OpenFile
    \/ OpenFileFails
    \/ ReadLine
    \/ EndOfFile
    \/ EndOfFiles
    \/ CowrieFrame
    \/ SentrypeerFrame
    \/ TannerFrame
    \/ Daily
    \/ TopIps
    \/ TopDet
    \/ UserAgents
    \/ Hourly
    \/ CowrieGeo
    \/ SentrypeerGeo
    \/ TannerGeo
    \/ Summary

Spec == Init /\ [][Next]_vars

TypeOK ==
    /\ family \in Families
    /\ pc \in Range(StepOrder)
    /\ Len(seen) <= MaxLines
    /\ nfiles <= MaxFiles
    /\ Len(df) <= Len(rows)
    /\ Len(rows) <= Len(seen)

\* ================================================================ claims
Table(t) == {t[i] : i \in DOMAIN t}

RECURSIVE SumCounts(_)
SumCounts(t) ==
    IF t = <<>> THEN 0 ELSE t[Len(t)][2] + SumCounts(SubSeq(t, 1, Len(t) - 1))

\* the line numbers of the rows of the record store, in order
StoreLines == [i \in 1..Len(df) |-> df[i].lineno]

\* the numbers of the lines that are a JSON object with a parseable timestamp
ValidLineNos ==
    SelectSeq([i \in 1..Len(seen) |-> i], LAMBDA i : IsValidLine(seen[i]))

\* C1: once the frame is built and cleaned, the record store holds exactly
\* one record for each line that is a JSON object with a parseable
\* timestamp, in input order, and none for any other line.
C1_StoreIsExactlyTheValidLines ==
    Past("frame") => StoreLines = ValidLineNos

\* C2: a line that is valid JSON but not an object, or an object with an
\* unparseable timestamp, is dropped alone: it never makes the construction
\* of the frame or the parsing of the timestamps end the run.
C2_RejectedLineNeverAborts ==
    error \notin {"AttributeError(DataFrame)", "ValueError(to_datetime)"}

\* the country a record is counted under, None when it is counted nowhere
CountryKey(f, ip) ==
    CASE f = "cowrie" -> ip_to_country(ip)
      [] f = "sentrypeer" -> resolve_country(ip)
      [] f = "tanner" -> IF InDb(ip) THEN country_name(ip) ELSE None

CountryKeys == [i \in 1..Len(df) |-> CountryKey(family, IpColumn(family, df)[i])]

\* the table has one row per distinct non-null key, each count is the number
\* of records with that key, counts descend
CountsEveryRecord(t, keys) ==
    /\ Len(t) = IF Cardinality(Range(keys) \ {None}) < TopN
                THEN Cardinality(Range(keys) \ {None}) ELSE TopN
    /\ \A i \in DOMAIN t : t[i][2] = Count(keys, t[i][1])
    /\ \A i \in 1..(Len(t) - 1) : t[i][2] >= t[i + 1][2]

\* C3: every Top-N table, the country table included, has min(n, distinct
\* keys) rows, each count being the number of retained records with that
\* key (every event counted), in descending order of count.
C3_TopNCountsEveryRecord ==
    /\ Past("top_ips") => CountsEveryRecord(top_ips, IpColumn(family, df))
    /\ (Past("geo") /\ geoip_db = "present")
         => CountsEveryRecord(country_counts, CountryKeys)

\* buckets ascend, none is empty, each count is the number of records in
\* the bucket, the buckets are those that occur
BucketsOk(t, keys) ==
    /\ \A i \in 1..(Len(t) - 1) : t[i][1] < t[i + 1][1]
    /\ \A i \in DOMAIN t : t[i][2] > 0 /\ t[i][2] = Count(keys, t[i][1])
    /\ {t[i][1] : i \in DOMAIN t} = Range(keys) \ {NaT}

\* C4: the daily counts (and tanner's hourly counts) list the buckets in
\* ascending order, never a bucket with count zero, each with the number of
\* records falling in it, and exactly the buckets present in the records.
C4_BucketedCount ==
    /\ Past("daily") => BucketsOk(daily, DateColumn(family, df))
    /\ (family = "tanner" /\ Past("hourly"))
         => BucketsOk(hourly, col_hour(df))

\* C4 witness: tanner has computed both tables over three records given out
\* of chronological order, two of them in one bucket and a gap between the
\* two dates
C4_Witness ==
    /\ family = "tanner" /\ Past("hourly") /\ Len(df) = 3
    /\ df[1].date > df[2].date + 1
    /\ Len(daily) = 2 /\ Len(hourly) = 2
    /\ \E i \in DOMAIN daily : daily[i][2] = 2

\* C5: no address is looked up in the database twice: the number of
\* lookups is at most the number of distinct addresses looked up.
C5_LookupsMemoized ==
    Len(dropna(lookups)) <= Cardinality(Range(dropna(lookups)))

\* C6: when the database file does not exist the run does not raise.
C6_AbsentDatabaseNotFatal ==
    geoip_db = "absent" => error = "none"

\* the records whose address the database does not resolve
FailedLookups ==
    Cardinality({i \in DOMAIN df : ~InDb(IpColumn(family, df)[i])})

\* C7: with the database present, the records whose lookup fails are
\* counted under the label "unknown" in the country table.
C7_FailedLookupCountedAsUnknown ==
    (Past("geo") /\ geoip_db = "present" /\ FailedLookups > 0
       /\ Cardinality(Range(CountryKeys)) < TopN)
    => <<Str("unknown"), FailedLookups>> \in Table(country_counts)

\* C8: a log file that cannot be opened does not end the run.
C8_UnopenableFileSkipped ==
    error /= "OSError(open)"

\* C9: when no line survives normalization the run does not raise and
\* every table it computes is empty.
C9_EmptyDatasetNotFatal ==
    (ValidLineNos = <<>> /\ Rank(pc) >= Rank("frame"))
    => /\ error \in {"none", "FileNotFoundError(Reader)"}
       /\ daily = <<>> /\ top_ips = <<>> /\ hourly = <<>>

\* C10: a record whose address field is absent is counted under a sentinel
\* label in the address Top-N table: the counts of the untruncated table sum
\* to the number of records.
C10_AbsentFieldCountedUnderSentinel ==
    (Past("top_ips") /\ Len(top_ips) < TopN)
    => SumCounts(top_ips) = Len(df)

\* the address and the port a split at the last colon gives: everything
\* before it and everything after it, the whole string and "unknown" when
\* there is no colon
LastColonAddress(str) ==
    IF Len(str) >= 2 THEN SubSeq(str, 1, Len(str) - 1) ELSE str

LastColonPort(str) ==
    IF Len(str) >= 2 THEN Str(str[Len(str)]) ELSE Str("unknown")

\* C11: in the sentrypeer script the split of source_ip never ends the run,
\* and every record with a source_ip has as src_ip what precedes its last
\* colon and as src_port what follows it ("unknown" when there is no colon).
C11_SplitOnLastColon ==
    family = "sentrypeer"
    => /\ error /= "ValueError(split)"
       /\ Past("frame") =>
            \A i \in DOMAIN df :
                df[i].source_ip /= None
                => /\ df[i].src_ip = LastColonAddress(df[i].source_ip)
                   /\ df[i].src_port = LastColonPort(df[i].source_ip)

====
